---- MODULE Spec2Model ----
(***************************************************************************)
(* A model of ziploy.py: the chunk splitter (generate_chunks), the         *)
(* transfer coordinator (get_chunk_files, async_upload_chunk,              *)
(* async_upload_chunks), the remote unpack bridge (ssh_unzip), cleanup     *)
(* and main.                                                               *)
(*                                                                         *)
(* File names are records [stem, ext]: stem is the text before the         *)
(* sequence suffix and ext the suffix as a sequence of decimal digits.     *)
(* The code points of '0'..'9' are ordered like the digits, so comparing   *)
(* two names that share the stem "_ziploy.zip.z" as Python strings is      *)
(* comparing their ext lexicographically.                                  *)
(***************************************************************************)
EXTENDS Integers, Sequences, FiniteSets, TLC

VARIABLES
    pc,            \* position of the single thread of control
    entry,         \* "main": run started through main(); "call": async_upload_chunks called directly
    args,          \* argparse result: ziployMethod, ziployId, scheme (of ziployRemoteHost), ssh_config
    SSH_CONFIG,    \* main's SSH_CONFIG
    chunk_size,    \* generate_chunks' chunk_size (scaled down from 5 MiB)
    zip_output,    \* the bytes the external archiver writes when it succeeds
    dir_exists,    \* whether the staging directory __to_ziploy exists
    dir,           \* staging directory: its entries [name, data], in directory order
    chunk_index,   \* enumerate() counter of the split loop
    fpos,          \* read position of f in the split loop
    call,          \* parameters of async_upload_chunks: ziployId, ziployMethod, ssh_params
    chunk_files,   \* async_upload_chunks' chunk_files
    tasks,         \* the upload requests, one per task, in task order
    status,        \* per task: "inflight" or "done"
    reply,         \* per task: what the server (or the transport) answered
    completed,     \* task indices in the order the uploads completed
    responses,     \* what asyncio.gather returned
    package,       \* aggregate
    destination,   \* aggregate
    unzip_calls,   \* invocations of ssh_unzip, in order
    unzip_status,  \* "none", "running", or how ssh_unzip's subprocess ended
    finalize_reqs, \* finalize requests sent, in order
    finalize_status, \* "none", "sent", or how the finalize request ended
    initiated_logged, \* whether "Deployment process initiated successfully" was logged
    gen_error,     \* "none", or the step of generate_chunks that failed: "zip", "split"
    stale,         \* names of the files the staging directory held when the run started
    exit_code      \* process exit status once the run has ended, else -1

vars == <<pc, entry, args, SSH_CONFIG, chunk_size, zip_output, dir_exists, dir,
          chunk_index, fpos, call, chunk_files, tasks, status, reply, completed,
          responses, package, destination, unzip_calls, unzip_status, finalize_reqs,
          finalize_status, initiated_logged, gen_error, stale, exit_code>>

genVars == <<dir_exists, dir, chunk_index, fpos, gen_error>>
upVars == <<chunk_files, tasks, status, reply, completed, responses, package,
            destination, unzip_calls, unzip_status, finalize_reqs, finalize_status,
            initiated_logged>>
cfgVars == <<entry, stale, args, SSH_CONFIG, chunk_size, zip_output>>

---------------------------------------------------------------------------
(* Bounds *)

\* longest archive, in bytes, of the splitter specification
MaxArchive == 4
\* largest chunk size, in bytes
MaxChunkSize == 2
\* most chunk files of a run of the coordinator
MaxChunks == 2
\* number of chunks of the long run of the splitter
BigChunks == 1001

(* Program constants *)

\* f"{chunk_index:03d}": minimum field width
PadWidth == 3
\* f"{chunk_index:03d}": 'd' is decimal
Radix == 10
\* ssh_port = 22
DefaultPort == 22

None == "None"
Byte == {0, 1}

ChunkPrefix == "_ziploy.zip.z"
ZipStem == "_ziploy.zip"

\* zip_filename = os.path.join(output_folder, "_ziploy.zip")
zip_filename == [stem |-> ZipStem, ext |-> <<>>]

---------------------------------------------------------------------------
(* Pure helpers *)

Min(a, b) == IF a < b THEN a ELSE b

RECURSIVE Digits(_)
\* the decimal digits of n, most significant first
Digits(n) == IF n < Radix THEN <<n>> ELSE Append(Digits(n \div Radix), n % Radix)

RECURSIVE ZeroPad(_)
ZeroPad(s) == IF Len(s) < PadWidth THEN ZeroPad(<<0>> \o s) ELSE s

\* f"{chunk_index:03d}": at least three digits, more when the number needs them
Format03d(n) == ZeroPad(Digits(n))

\* os.path.join(output_folder, f"_ziploy.zip.z{chunk_index:03d}")
chunk_filename(n) == [stem |-> ChunkPrefix, ext |-> Format03d(n)]

\* Python's str <: a proper prefix is smaller, else the first differing character decides
LexLess(a, b) ==
    \E k \in 1..(Min(Len(a), Len(b)) + 1) :
        /\ \A j \in 1..(k - 1) : a[j] = b[j]
        /\ \/ k > Len(a) /\ k <= Len(b)
           \/ k <= Len(a) /\ k <= Len(b) /\ a[k] < b[k]

\* order of two file names with the chunk prefix
NameLess(f, g) == LexLess(f.ext, g.ext)

\* sorted(names): the names in ascending order
sorted(s) == SortSeq(s, NameLess)

\* f.startswith("_ziploy.zip.z")
startswith_prefix(f) == f.stem = ChunkPrefix

\* os.listdir(output_folder): the names of the directory's entries
listdir(d) == [i \in 1..Len(d) |-> d[i].name]

\* a listing that takes every file of the folder
get_all_files(d) == sorted(listdir(d))

\* sorted([f for f in os.listdir(output_folder) if f.startswith("_ziploy.zip.z")])
get_chunk_files(d) == sorted(SelectSeq(listdir(d), startswith_prefix))

\* a read that returns full blocks only and drops a shorter tail
ReadFullOnly(archive, pos, size) ==
    IF pos + size <= Len(archive) THEN SubSeq(archive, pos + 1, pos + size) ELSE <<>>

\* f.read(chunk_size) at position pos of a regular file: chunk_size bytes, fewer at the end
Read(archive, pos, size) == SubSeq(archive, pos + 1, Min(pos + size, Len(archive)))

\* whether directory d holds a file named f
exists(d, f) == \E i \in 1..Len(d) : d[i].name = f

\* the content of file f of directory d
content(d, f) == d[CHOOSE i \in 1..Len(d) : d[i].name = f].data

\* open(f, 'wb').write(c): f is created, or truncated and rewritten
WriteFile(d, f, c) ==
    IF exists(d, f)
    THEN [i \in 1..Len(d) |-> IF d[i].name = f THEN [name |-> f, data |-> c] ELSE d[i]]
    ELSE Append(d, [name |-> f, data |-> c])

\* os.remove(f)
RemoveFile(d, f) ==
    LET keep(e) == e.name # f
    IN  SelectSeq(d, keep)

\* the directory right after os.makedirs
EmptyDir == <<>>

Ceil(s, c) == (s + c - 1) \div c

RECURSIVE SeqsUpTo(_)
\* all byte sequences of length at most n
SeqsUpTo(n) ==
    IF n = 0 THEN {<<>>}
    ELSE LET P == SeqsUpTo(n - 1)
         IN  P \cup {Append(s, b) : s \in {t \in P : Len(t) = n - 1}, b \in Byte}

Zeros(n) == [i \in 1..n |-> 0]

---------------------------------------------------------------------------
(* Values before anything has run *)

NoArgs == [ziployMethod |-> "HTTP", ziployId |-> "id-a", scheme |-> "https", ssh_config |-> <<>>]

\* SSH_CONFIG = {}
NoConfig == [user |-> None, host |-> None, port |-> 0, key |-> None]

\* ssh_params=None
NoParams == [is_none |-> TRUE, command |-> None, config |-> NoConfig]

NoCall == [ziployId |-> None, ziployMethod |-> None, ssh_params |-> NoParams]

\* index of the last chunk file an earlier run left behind
StaleIndex == 7
\* what a run leaves behind when it ends without cleanup() after its splitter
\* wrote chunks 0..StaleIndex: the chunk files, one byte each
StaleDir == [i \in 1..(StaleIndex + 1) |-> [name |-> chunk_filename(i - 1), data |-> <<1>>]]

\* the names of the entries of directory d
names(d) == { d[i].name : i \in 1..Len(d) }

UploadIdle ==
    /\ chunk_files = <<>>
    /\ tasks = <<>>
    /\ status = <<>>
    /\ reply = <<>>
    /\ completed = <<>>
    /\ responses = <<>>
    /\ package = None
    /\ destination = None
    /\ unzip_calls = <<>>
    /\ unzip_status = "none"
    /\ finalize_reqs = <<>>
    /\ finalize_status = "none"
    /\ initiated_logged = FALSE

---------------------------------------------------------------------------
(* generate_chunks *)

\* a generate_chunks that only creates the folder when it is missing
KeepFolder(d) == d

\* if os.path.exists(output_folder): shutil.rmtree(output_folder); os.makedirs(...)
PrepareFolder(d) == EmptyDir

GenPrepare ==
    /\ pc = "generate_chunks"
    /\ dir_exists' = TRUE
    /\ dir' = PrepareFolder(dir)
    /\ pc' = "zip"
    /\ UNCHANGED <<entry, stale, args, SSH_CONFIG, chunk_size, zip_output, chunk_index,
                   fpos, gen_error, call, upVars, exit_code>>

\* subprocess.run(zip_command, check=True) returns: the archive is written
ZipOk ==
    /\ pc = "zip"
    /\ dir' = WriteFile(dir, zip_filename, zip_output)
    /\ chunk_index' = 0
    /\ fpos' = 0
    /\ pc' = "split"
    /\ UNCHANGED <<entry, stale, args, SSH_CONFIG, chunk_size, zip_output,
                   dir_exists, gen_error, call, upVars, exit_code>>

\* subprocess.CalledProcessError: logging.error, sys.exit(1)
ZipFail ==
    /\ pc = "zip"
    /\ gen_error' = "zip"
    /\ pc' = "exit"
    /\ exit_code' = 1
    /\ UNCHANGED <<entry, stale, args, SSH_CONFIG, chunk_size, zip_output, dir_exists, dir,
                   chunk_index, fpos, call, upVars>>

\* the chunk the next iteration of the split loop reads
NextChunk == Read(content(dir, zip_filename), fpos, chunk_size)

\* one iteration of the split loop: the chunk read is not b'' and is written to its file
SplitWrite ==
    /\ pc = "split"
    /\ NextChunk # <<>>
    /\ dir' = WriteFile(dir, chunk_filename(chunk_index), NextChunk)
    /\ fpos' = fpos + Len(NextChunk)
    /\ chunk_index' = chunk_index + 1
    /\ UNCHANGED <<pc, entry, stale, args, SSH_CONFIG, chunk_size, zip_output,
                   dir_exists, gen_error, call, upVars, exit_code>>

\* f.read returns b'': iter() stops and the loop ends
SplitEnd ==
    /\ pc = "split"
    /\ NextChunk = <<>>
    /\ pc' = "remove_zip"
    /\ UNCHANGED <<entry, stale, args, SSH_CONFIG, chunk_size, zip_output, genVars, call,
                   upVars, exit_code>>

\* a splitter whose except clause logs the error and falls through to the
\* removal of the archive
on_split_error_logged == [pc |-> "remove_zip", exit_code |-> -1]

\* except Exception as e: logging.error(...); sys.exit(1)
on_split_error == [pc |-> "exit", exit_code |-> 1]

\* open, read or write raises
SplitFail ==
    /\ pc = "split"
    /\ gen_error' = "split"
    /\ pc' = on_split_error.pc
    /\ exit_code' = on_split_error.exit_code
    /\ UNCHANGED <<entry, stale, args, SSH_CONFIG, chunk_size, zip_output, dir_exists, dir,
                   chunk_index, fpos, call, upVars>>

\* os.remove(zip_filename) succeeds
RemoveZipOk ==
    /\ pc = "remove_zip"
    /\ dir' = RemoveFile(dir, zip_filename)
    /\ pc' = "generated"
    /\ UNCHANGED <<entry, stale, args, SSH_CONFIG, chunk_size, zip_output,
                   dir_exists, chunk_index, fpos, gen_error, call, upVars, exit_code>>

\* os.remove raises: the error is logged and the archive stays in the folder
RemoveZipFail ==
    /\ pc = "remove_zip"
    /\ pc' = "generated"
    /\ UNCHANGED <<entry, stale, args, SSH_CONFIG, chunk_size, zip_output, genVars, call,
                   upVars, exit_code>>

---------------------------------------------------------------------------
(* main, up to the call of generate_chunks *)

\* str.upper() on the method names of the model
Upper(m) == IF m = "ssh" THEN "SSH" ELSE IF m = "http" THEN "HTTP" ELSE m

\* str.strip() on the strings of the model
Strip(x) == IF x = " deploy " THEN "deploy" ELSE x

\* str.isdigit() on the strings of the model
IsDigit(x) == x = "2222"

\* int() on the digit strings of the model
ToInt(x) == IF x = "2222" THEN 2222 ELSE 0

\* parse_ssh_config: [error |-> parser.error was called, config |-> the dict returned]
parse_ssh_config(c) ==
    IF Len(c) < 3 THEN [error |-> TRUE, config |-> NoConfig]
    ELSE IF Len(c) = 3
    THEN [error |-> Strip(c[1]) = "" \/ Strip(c[2]) = "" \/ Strip(c[3]) = "",
          config |-> [user |-> Strip(c[1]), host |-> Strip(c[2]), port |-> DefaultPort,
                      key |-> Strip(c[3])]]
    ELSE IF ~IsDigit(Strip(c[3])) THEN [error |-> TRUE, config |-> NoConfig]
    ELSE [error |-> Strip(c[1]) = "" \/ Strip(c[2]) = "" \/ Strip(c[4]) = "",
          config |-> [user |-> Strip(c[1]), host |-> Strip(c[2]),
                      port |-> ToInt(Strip(c[3])), key |-> Strip(c[4])]]

\* validate_args: parser.error unless the URL scheme is http or https
validate_args_fails(a) == a.scheme \notin {"http", "https"}

\* main, lines 229-239: parse and validate the arguments; parser.error exits with status 2
MainParse ==
    /\ pc = "main"
    /\ IF validate_args_fails(args)
       THEN /\ pc' = "exit"
            /\ exit_code' = 2
            /\ UNCHANGED SSH_CONFIG
       ELSE IF Upper(args.ziployMethod) = "SSH"
       THEN IF parse_ssh_config(args.ssh_config).error
            THEN /\ pc' = "exit"
                 /\ exit_code' = 2
                 /\ UNCHANGED SSH_CONFIG
            ELSE /\ SSH_CONFIG' = parse_ssh_config(args.ssh_config).config
                 /\ pc' = "generate_chunks"
                 /\ UNCHANGED exit_code
       ELSE /\ SSH_CONFIG' = NoConfig
            /\ pc' = "generate_chunks"
            /\ UNCHANGED exit_code
    /\ UNCHANGED <<entry, stale, args, chunk_size, zip_output, genVars, call, upVars>>

---------------------------------------------------------------------------
(* The transfer coordinator *)

\* main, line 242: async_upload_chunks(args.ziployRemoteHost, args.ziployId, False,
\* "__to_ziploy"): ziployMethod and ssh_params take their defaults, "HTTP" and None
main_call(a, cfg) == [ziployId |-> a.ziployId, ziployMethod |-> "HTTP", ssh_params |-> NoParams]

MainUpload ==
    /\ pc = "generated"
    /\ entry = "main"
    /\ call' = main_call(args, SSH_CONFIG)
    /\ pc' = "upload"
    /\ UNCHANGED <<cfgVars, genVars, upVars, exit_code>>

\* a marker on the first chunk instead of the last
first_chunk(idx, n) == idx = 0

\* last_chunk = (idx == len(chunk_files) - 1), idx counted from 0
last_chunk(idx, n) == idx = n - 1

\* the request task number i (from 1) sends: form fields id, last (when set) and ziploy
upload_request(d, id, files, i) ==
    [id |-> id,
     last |-> last_chunk(i - 1, Len(files)),
     filename |-> files[i],
     data |-> content(d, files[i])]

NoReply ==
    [kind |-> "none", ok |-> FALSE, json |-> "none", keys |-> {}, package |-> None,
     destination |-> None]

Pkg(i) == "pkg-" \o ToString(i)
Dst(i) == "/var/www/" \o ToString(i)

\* what can come back for the upload of task i: no response at all; a non-2xx
\* response whose body names a package and a destination; a 2xx response whose
\* body is not JSON; a 2xx JSON object with both fields, with neither, with the
\* package only, with both fields null; a 2xx JSON array
Replies(i) ==
    { [kind |-> "transport", ok |-> FALSE, json |-> "none", keys |-> {},
       package |-> None, destination |-> None],
      [kind |-> "http", ok |-> FALSE, json |-> "dict", keys |-> {"package", "destination"},
       package |-> Pkg(i), destination |-> Dst(i)],
      [kind |-> "http", ok |-> TRUE, json |-> "malformed", keys |-> {},
       package |-> None, destination |-> None],
      [kind |-> "http", ok |-> TRUE, json |-> "dict", keys |-> {"package", "destination"},
       package |-> Pkg(i), destination |-> Dst(i)],
      [kind |-> "http", ok |-> TRUE, json |-> "dict", keys |-> {},
       package |-> None, destination |-> None],
      [kind |-> "http", ok |-> TRUE, json |-> "dict", keys |-> {"package"},
       package |-> Pkg(i), destination |-> None],
      [kind |-> "http", ok |-> TRUE, json |-> "dict", keys |-> {"package", "destination"},
       package |-> None, destination |-> None],
      [kind |-> "http", ok |-> TRUE, json |-> "list", keys |-> {},
       package |-> None, destination |-> None] }

Raised == [type |-> "exception", keys |-> {}, package |-> None, destination |-> None]

\* an upload that returns the body whatever the status
upload_result_unchecked(r) ==
    IF r.kind # "http" THEN Raised
    ELSE IF r.json \notin {"dict", "list"} THEN Raised
    ELSE [type |-> r.json, keys |-> r.keys, package |-> r.package,
          destination |-> r.destination]

\* async_upload_chunk, lines 144-147: session.post raises on a transport error,
\* resp.raise_for_status() on a non-2xx status, resp.json() on a malformed body;
\* else the parsed body is returned. With return_exceptions=True the exception
\* raised is the task's result.
upload_result(r) ==
    IF r.kind # "http" THEN Raised
    ELSE IF ~r.ok THEN Raised
    ELSE IF r.json \notin {"dict", "list"} THEN Raised
    ELSE [type |-> r.json, keys |-> r.keys, package |-> r.package,
          destination |-> r.destination]

\* results handed back in the order the uploads completed
gather_as_completed(rs, order) == [k \in 1..Len(order) |-> upload_result(rs[order[k]])]

\* asyncio.gather(*tasks, return_exceptions=True): the results in the order of the
\* tasks passed, whatever the order they completed in
gather(rs, order) == [i \in 1..Len(rs) |-> upload_result(rs[i])]

\* a wait that returns as soon as one upload has completed
first_completed(st) == st = <<>> \/ \E i \in 1..Len(st) : st[i] = "done"

\* await asyncio.gather(...) resumes once every task has a result
all_completed(st) == \A i \in 1..Len(st) : st[i] = "done"

\* a loop that takes each of the two fields whenever the response has it
fold_step_each_field(acc, resp) ==
    IF resp.type # "dict" THEN acc
    ELSE [package |-> IF "package" \in resp.keys THEN resp.package ELSE acc.package,
          destination |-> IF "destination" \in resp.keys THEN resp.destination
                          ELSE acc.destination]

\* lines 174-181: one iteration of the loop over responses
fold_step(acc, resp) ==
    IF resp.type = "exception" THEN acc
    ELSE IF resp.type = "dict"
    THEN IF "package" \in resp.keys /\ "destination" \in resp.keys
         THEN [package |-> resp.package, destination |-> resp.destination]
         ELSE acc
    ELSE acc

RECURSIVE fold_from(_, _)
fold_from(resps, acc) ==
    IF resps = <<>> THEN acc ELSE fold_from(Tail(resps), fold_step(acc, Head(resps)))

\* lines 172-181: package, destination = None, None, then the loop over responses
fold(resps) == fold_from(resps, [package |-> None, destination |-> None])

\* line 184: ziployMethod.upper() == "SSH" and ssh_params is not None
should_unzip(c) == Upper(c.ziployMethod) = "SSH" /\ ~c.ssh_params.is_none

\* the json= argument of the finalize request, lines 191-196
finalize_request(c, agg) ==
    [id |-> c.ziployId, package |-> agg.package, destination |-> agg.destination,
     method |-> c.ziployMethod]

\* lines 161-171, up to the await: enumerate the chunk files and start one upload each
StartUploads ==
    /\ pc = "upload"
    /\ chunk_files' = get_chunk_files(dir)
    /\ tasks' = [i \in 1..Len(chunk_files') |->
                    upload_request(dir, call.ziployId, chunk_files', i)]
    /\ status' = [i \in 1..Len(chunk_files') |-> "inflight"]
    /\ reply' = [i \in 1..Len(chunk_files') |-> NoReply]
    /\ pc' = "gather"
    /\ UNCHANGED <<cfgVars, genVars, call, initiated_logged, completed, responses, package, destination,
                   unzip_calls, unzip_status, finalize_reqs, finalize_status, exit_code>>

\* asyncio.gather without return_exceptions: the first exception of a task
\* is raised to the awaiting coroutine
gather_raises_first(rs, st) ==
    \E i \in 1..Len(rs) : st[i] = "done" /\ upload_result(rs[i]).type = "exception"

\* asyncio.gather(*tasks, return_exceptions=True): exceptions are returned as
\* results, never raised
gather_raises(rs, st) == FALSE

\* one upload gets its answer, or fails
Complete(i) ==
    /\ pc = "gather"
    /\ status[i] = "inflight"
    /\ \E r \in Replies(i) : reply' = [reply EXCEPT ![i] = r]
    /\ status' = [status EXCEPT ![i] = "done"]
    /\ completed' = Append(completed, i)
    /\ UNCHANGED <<pc, cfgVars, genVars, call, chunk_files, tasks, initiated_logged, responses, package,
                   destination, unzip_calls, unzip_status, finalize_reqs, finalize_status,
                   exit_code>>

CompleteSome == \E i \in 1..Len(tasks) : Complete(i)

\* lines 171-198, from the return of gather to the next blocking call: the fold,
\* then ssh_unzip's subprocess is started, or else the finalize request is sent.
\* An exception raised by the await leaves async_upload_chunks and asyncio.run,
\* and nothing catches it.
GatherReturn ==
    /\ pc = "gather"
    /\ IF gather_raises(reply, status)
       THEN /\ pc' = "raised"
            /\ exit_code' = IF entry = "main" THEN 1 ELSE exit_code
            /\ UNCHANGED <<responses, package, destination, unzip_calls, unzip_status,
                           finalize_reqs, finalize_status>>
       ELSE /\ all_completed(status)
            /\ responses' = gather(reply, completed)
            /\ package' = fold(responses').package
            /\ destination' = fold(responses').destination
            /\ UNCHANGED exit_code
            /\ IF should_unzip(call)
               THEN /\ unzip_calls' = Append(unzip_calls,
                                             [command |-> call.ssh_params.command,
                                              config |-> call.ssh_params.config])
                    /\ unzip_status' = "running"
                    /\ pc' = "ssh_unzip"
                    /\ UNCHANGED <<finalize_reqs, finalize_status>>
               ELSE /\ finalize_reqs' = Append(finalize_reqs,
                                               finalize_request(call, fold(responses')))
                    /\ finalize_status' = "sent"
                    /\ pc' = "finalize"
                    /\ UNCHANGED <<unzip_calls, unzip_status>>
    /\ UNCHANGED <<cfgVars, genVars, call, chunk_files, tasks, initiated_logged, status,
                   reply, completed>>

\* an ssh_unzip that logs the failure and returns
unzip_never_fatal(rc) == FALSE

\* subprocess.run(..., check=True) raises CalledProcessError on a non-zero exit
\* status, and ssh_unzip then calls sys.exit(1)
unzip_fatal(rc) == rc # 0

\* ssh_unzip's subprocess ends with exit status rc; on 0 the finalize request is sent
UnzipReturn ==
    /\ pc = "ssh_unzip"
    /\ \E rc \in {0, 1, 255} :
        IF unzip_fatal(rc)
        THEN /\ unzip_status' = "nonzero"
             /\ pc' = "exit"
             /\ exit_code' = 1
             /\ UNCHANGED <<finalize_reqs, finalize_status>>
        ELSE /\ unzip_status' = IF rc = 0 THEN "ok" ELSE "nonzero"
             /\ finalize_reqs' = Append(finalize_reqs,
                                        finalize_request(call, [package |-> package,
                                                               destination |-> destination]))
             /\ finalize_status' = "sent"
             /\ pc' = "finalize"
             /\ UNCHANGED exit_code
    /\ UNCHANGED <<cfgVars, genVars, call, chunk_files, tasks, initiated_logged, status, reply, completed,
                   responses, package, destination, unzip_calls>>

\* subprocess.run raises something else (no ssh binary): nothing catches it
UnzipError ==
    /\ pc = "ssh_unzip"
    /\ unzip_status' = "oserror"
    /\ pc' = "raised"
    /\ exit_code' = IF entry = "main" THEN 1 ELSE exit_code
    /\ UNCHANGED <<cfgVars, genVars, call, chunk_files, tasks, initiated_logged, status, reply, completed,
                   responses, package, destination, unzip_calls, finalize_reqs,
                   finalize_status>>

\* a coordinator that does not call raise_for_status() on the finalize response
finalize_raises_unchecked(st) == st \in {"transport", "malformed"}

\* session.post raises on a transport error, resp.raise_for_status() on a
\* non-2xx status, resp.json() on a body that is not JSON
finalize_raises(st) == st \in {"transport", "status", "malformed"}

\* lines 196-200: the finalize request ends as st. An exception leaves
\* async_upload_chunks and asyncio.run, and nothing catches it; otherwise the
\* success is logged and async_upload_chunks returns
FinalizeAnswer(st) ==
    /\ pc = "finalize"
    /\ finalize_status' = st
    /\ IF finalize_raises(st)
       THEN /\ pc' = "raised"
            /\ exit_code' = IF entry = "main" THEN 1 ELSE exit_code
            /\ UNCHANGED initiated_logged
       ELSE /\ pc' = "uploaded"
            /\ initiated_logged' = TRUE
            /\ UNCHANGED exit_code
    /\ UNCHANGED <<cfgVars, genVars, call, chunk_files, tasks, status, reply, completed,
                   responses, package, destination, unzip_calls, unzip_status,
                   finalize_reqs>>

\* the finalize request is answered 2xx with a JSON body
FinalizeOk == FinalizeAnswer("ok")

\* the finalize request fails in transport, is answered non-2xx, or is answered
\* 2xx with a body that is not JSON
FinalizeFail == \E st \in {"transport", "status", "malformed"} : FinalizeAnswer(st)

\* cleanup(), then main returns
Cleanup ==
    /\ pc = "uploaded"
    /\ entry = "main"
    /\ dir_exists' = FALSE
    /\ dir' = EmptyDir
    /\ pc' = "exit"
    /\ exit_code' = 0
    /\ UNCHANGED <<cfgVars, chunk_index, fpos, gen_error, call, upVars>>

NextSplit ==
    \/ GenPrepare
    \/ ZipOk
    \/ ZipFail
    \/ SplitWrite
    \/ SplitEnd
    \/ SplitFail
    \/ RemoveZipOk
    \/ RemoveZipFail

\* generate_chunks alone, on every archive of at most MaxArchive bytes
InitSplit ==
    /\ pc = "generate_chunks"
    /\ entry = "generate_chunks"
    /\ args = NoArgs
    /\ SSH_CONFIG = NoConfig
    /\ chunk_size \in 1..MaxChunkSize
    /\ zip_output \in SeqsUpTo(MaxArchive)
    /\ \/ dir_exists = FALSE /\ dir = EmptyDir
       \/ dir_exists = TRUE /\ dir = StaleDir
    /\ chunk_index = 0
    /\ fpos = 0
    /\ call = NoCall
    /\ UploadIdle
    /\ gen_error = "none"
    /\ stale = names(dir)
    /\ exit_code = -1

SpecSplit == InitSplit /\ [][NextSplit]_vars

\* the staging directory once the split loop has written the first k chunks of
\* an archive of zero bytes with chunk size 1
DirAfter(k) ==
    [i \in 1..(k + 1) |->
        IF i = 1 THEN [name |-> zip_filename, data |-> Zeros(BigChunks)]
        ELSE [name |-> chunk_filename(i - 2), data |-> <<0>>]]

\* generate_chunks alone, on one archive of BigChunks chunks of one byte: from
\* its start, and from each state of that run's split loop (the states k
\* iterations of SplitWrite lead to)
InitBig ==
    /\ entry = "generate_chunks"
    /\ args = NoArgs
    /\ SSH_CONFIG = NoConfig
    /\ chunk_size = 1
    /\ zip_output = Zeros(BigChunks)
    /\ \/ /\ pc = "generate_chunks"
          /\ dir_exists = FALSE
          /\ dir = EmptyDir
          /\ chunk_index = 0
          /\ fpos = 0
       \/ /\ pc = "split"
          /\ dir_exists = TRUE
          /\ chunk_index \in 0..BigChunks
          /\ fpos = chunk_index
          /\ dir = DirAfter(chunk_index)
    /\ call = NoCall
    /\ UploadIdle
    /\ gen_error = "none"
    /\ stale = {}
    /\ exit_code = -1

SpecBig == InitBig /\ [][NextSplit]_vars

---------------------------------------------------------------------------
(* Runs of the whole program, and direct calls of async_upload_chunks *)

Methods == {"SSH", "ssh", "HTTP"}
Ids == {"id-a", "id-b"}

\* the SSH_CONFIG arguments of the command line
SshArgs ==
    { <<>>,
      <<" deploy ", "example.org", "id_rsa">>,
      <<"deploy", "example.org", "2222", "id_rsa">>,
      <<"deploy", "example.org", "port", "id_rsa">> }

\* command lines: every method, with every SSH_CONFIG for the first id; a URL
\* that passes validation or not
ArgSet ==
    { a \in [ziployMethod : Methods, ziployId : Ids, scheme : {"https", "ftp"},
             ssh_config : SshArgs] :
        /\ a.scheme = "ftp" => (a.ziployId = "id-a" /\ a.ssh_config = <<>>)
        /\ a.ziployId # "id-a" => (a.ziployMethod = "HTTP" /\ a.ssh_config = <<>>)
        /\ Upper(a.ziployMethod) # "SSH" => Len(a.ssh_config) \in {0, 3} }

\* credentials a direct caller passes
CallerConfig == [user |-> "deploy", host |-> "example.org", port |-> DefaultPort, key |-> "id_rsa"]
CallerParams == [is_none |-> FALSE, command |-> "unzip", config |-> CallerConfig]

\* direct calls: every method with and without ssh_params for the first id
CallSet ==
    { c \in [ziployId : Ids, ziployMethod : Methods, ssh_params : {NoParams, CallerParams}] :
        c.ziployId # "id-a" => (c.ziployMethod = "HTTP" /\ c.ssh_params = NoParams) }

\* the entries a directory handed to async_upload_chunks may hold, in directory
\* order: chunk files named 2, 10 and 001, and the archive itself
FolderEntries ==
    << [name |-> [stem |-> ChunkPrefix, ext |-> <<2>>], data |-> <<0>>],
       [name |-> zip_filename, data |-> <<0, 0>>],
       [name |-> [stem |-> ChunkPrefix, ext |-> <<1, 0>>], data |-> <<1>>],
       [name |-> [stem |-> ChunkPrefix, ext |-> <<0, 0, 1>>], data |-> <<0>>] >>

\* the entries of FolderEntries at the positions P, in directory order
FolderOf(P) ==
    LET in_P(e) == \E i \in P : FolderEntries[i] = e
    IN  SelectSeq(FolderEntries, in_P)

\* directories with at most MaxChunks chunk files
Folders ==
    { FolderOf(P) : P \in { Q \in SUBSET (1..Len(FolderEntries)) :
                              Cardinality(Q \ {2}) <= MaxChunks } }

Init ==
    /\ exit_code = -1
    /\ gen_error = "none"
    /\ chunk_index = 0
    /\ fpos = 0
    /\ UploadIdle
    /\ \/ /\ entry = "main"
          /\ pc = "main"
          /\ args \in ArgSet
          /\ SSH_CONFIG = NoConfig
          /\ chunk_size \in 1..MaxChunkSize
          /\ zip_output \in { Zeros(n) : n \in { m \in 0..MaxArchive :
                                                   Ceil(m, chunk_size) <= MaxChunks } }
          /\ \/ dir_exists = FALSE /\ dir = EmptyDir
             \/ dir_exists = TRUE /\ dir = StaleDir
          /\ call = NoCall
       \/ /\ entry = "call"
          /\ pc = "upload"
          /\ args = NoArgs
          /\ SSH_CONFIG = NoConfig
          /\ chunk_size = 1
          /\ zip_output = <<>>
          /\ dir_exists = TRUE
          /\ dir \in Folders
          /\ call \in CallSet
    /\ stale = names(dir)

Next ==
    \/ MainParse
    \/ GenPrepare
    \/ ZipOk
    \/ ZipFail
    \/ SplitWrite
    \/ SplitEnd
    \/ SplitFail
    \/ RemoveZipOk
    \/ RemoveZipFail
    \/ MainUpload
    \/ StartUploads
    \/ CompleteSome
    \/ GatherReturn
    \/ UnzipReturn
    \/ UnzipError
    \/ FinalizeOk
    \/ FinalizeFail
    \/ Cleanup

Spec == Init /\ [][Next]_vars

---------------------------------------------------------------------------
(* Claims about the splitter *)

\* the chunk files of the staging directory
ChunkNames == {dir[i].name : i \in {j \in 1..Len(dir) : startswith_prefix(dir[j].name)}}

RECURSIVE ConcatChunks(_, _)
\* the contents of chunks i .. n-1, by sequence number, one after the other
ConcatChunks(i, n) ==
    IF i >= n THEN <<>> ELSE content(dir, chunk_filename(i)) \o ConcatChunks(i + 1, n)

SplitDone == entry = "generate_chunks" /\ pc \in {"remove_zip", "generated"}

\* C9: an archive of S > 0 bytes split with chunk size C gives exactly ceil(S/C)
\* chunk files numbered 0 .. ceil(S/C)-1, each but the final one of C bytes, none
\* empty, and their contents in sequence-number order are the archive's bytes.
C9_SplitRoundTrip ==
    (SplitDone /\ Len(zip_output) > 0) =>
        LET n == Ceil(Len(zip_output), chunk_size)
        IN  /\ Cardinality(ChunkNames) = n
            /\ ChunkNames = {chunk_filename(i) : i \in 0..(n - 1)}
            /\ \A i \in 0..(n - 2) : Len(content(dir, chunk_filename(i))) = chunk_size
            /\ \A f \in ChunkNames : Len(content(dir, f)) >= 1
            /\ ConcatChunks(0, n) = zip_output

\* a 3-byte archive with differing bytes split in chunks of 2: a full and a partial chunk
C9_Witness ==
    /\ SplitDone
    /\ pc = "generated"
    /\ zip_output = <<0, 1, 1>>
    /\ chunk_size = 2
    /\ content(dir, chunk_filename(1)) = <<1>>

\* C5: whatever the number of chunks the splitter has written, the chunk files in
\* lexicographic order of their names are the chunk files in sequence-number
\* order, so the name sorted last is that of the highest sequence number.
C5_LexOrderIsSequenceOrder ==
    (entry = "generate_chunks" /\ pc \in {"split", "remove_zip", "generated"}) =>
        get_chunk_files(dir) = [i \in 1..chunk_index |-> chunk_filename(i - 1)]

---------------------------------------------------------------------------
(* Claims about the transfer coordinator *)

\* the uploads of this run have been started and the staging directory is still
\* the one that was enumerated
UploadsStarted ==
    \/ pc \in {"gather", "ssh_unzip", "finalize", "uploaded", "raised"}
    \/ pc = "exit" /\ unzip_status # "none"

FinalizeSent == finalize_reqs # <<>>

\* the upload of task i was answered 2xx with a JSON object
Succeeded(i) == reply[i].kind = "http" /\ reply[i].ok /\ reply[i].json = "dict"

\* the acknowledgement of task i has both fields
CarriesPair(i) == Succeeded(i) /\ {"package", "destination"} \subseteq reply[i].keys

\* the position of task i in the order of completion
CompletedAt(i) == CHOOSE k \in 1..Len(completed) : completed[k] = i

\* C1: once ssh_unzip's command has exited non-zero in a run whose method is SSH,
\* no finalize request has been sent, in that state or in any later one.
C1_NoFinalizeAfterFailedUnzip ==
    (Upper(call.ziployMethod) = "SSH" /\ unzip_status = "nonzero") => finalize_reqs = <<>>

\* an SSH run whose uploads all resolved and whose unpack then exited non-zero
C1_Witness ==
    /\ Upper(call.ziployMethod) = "SSH"
    /\ unzip_status = "nonzero"
    /\ Len(unzip_calls) = 1
    /\ Len(tasks) = 2
    /\ pc = "exit"
    /\ exit_code = 1

\* C2: in a run started through main with method SSH, a finalize request is sent
\* only after ssh_unzip was invoked with the parsed SSH credentials.
C2_UnzipBeforeFinalize ==
    (entry = "main" /\ Upper(args.ziployMethod) = "SSH" /\ FinalizeSent) =>
        /\ unzip_calls # <<>>
        /\ unzip_calls[1].config = SSH_CONFIG

\* C3: in a run started through main, the finalize request carries the method and
\* the id of the command line.
C3_FinalizeCarriesChosenMethod ==
    (entry = "main" /\ FinalizeSent) =>
        /\ Upper(finalize_reqs[1].method) = Upper(args.ziployMethod)
        /\ finalize_reqs[1].id = args.ziployId

\* C4: when the staging directory holds chunk files, there is one upload request
\* per chunk file, exactly one request carries the last marker, and it is the
\* request of the chunk file whose name is last in lexicographic order.
C4_OneLastMarker ==
    (UploadsStarted /\ ChunkNames # {}) =>
        LET marked == {i \in 1..Len(tasks) : tasks[i].last}
        IN  /\ {tasks[i].filename : i \in 1..Len(tasks)} = ChunkNames
            /\ Len(tasks) = Cardinality(ChunkNames)
            /\ Cardinality(marked) = 1
            /\ \A i \in marked : \A g \in ChunkNames \ {tasks[i].filename} :
                   NameLess(g, tasks[i].filename)

\* a directory with the chunk files 2 and 10: the marker is on 2, the name sorted last
C4_Witness ==
    /\ UploadsStarted
    /\ Len(tasks) = 2
    /\ \E i \in 1..2 : tasks[i].last /\ tasks[i].filename.ext = <<2>>
    /\ \E i \in 1..2 : ~tasks[i].last /\ tasks[i].filename.ext = <<1, 0>>

\* C6: with no chunk file in the staging directory, no finalize request with a
\* null package and a null destination is sent.
C6_NoFinalizeWithoutChunks ==
    (UploadsStarted /\ chunk_files = <<>>) =>
        ~\E k \in 1..Len(finalize_reqs) :
            finalize_reqs[k].package = None /\ finalize_reqs[k].destination = None

\* C7: the package and destination of a finalize request are both null, or are
\* the pair of the acknowledgement of one upload that succeeded.
C7_PairFromSuccessOnly ==
    \A k \in 1..Len(finalize_reqs) :
        \/ finalize_reqs[k].package = None /\ finalize_reqs[k].destination = None
        \/ \E i \in 1..Len(tasks) :
              /\ CarriesPair(i)
              /\ finalize_reqs[k].package = reply[i].package
              /\ finalize_reqs[k].destination = reply[i].destination

\* the second upload is refused with a body naming a pair, the first succeeds
\* with its pair, and the finalize request carries the first one's
C7_Witness ==
    /\ FinalizeSent
    /\ Len(tasks) = 2
    /\ reply[2].kind = "http" /\ ~reply[2].ok /\ reply[2].package = Pkg(2)
    /\ CarriesPair(1)
    /\ finalize_reqs[1].package = Pkg(1)
    /\ finalize_reqs[1].destination = Dst(1)

\* the tasks whose acknowledgement has both fields
Carriers == {i \in 1..Len(tasks) : CarriesPair(i)}

\* C8 as stated: when the acknowledgements with both fields all name a package
\* and a destination, the finalize request carries the pair of the one, among
\* them, whose upload completed last.
C8_LastCompletedWins ==
    (/\ FinalizeSent
     /\ Carriers # {}
     /\ \A i \in Carriers : reply[i].package # None /\ reply[i].destination # None) =>
        LET w == CHOOSE i \in Carriers : \A j \in Carriers : CompletedAt(j) <= CompletedAt(i)
        IN  /\ finalize_reqs[1].package = reply[w].package
            /\ finalize_reqs[1].destination = reply[w].destination

\* C8 as amended: the finalize request carries the pair of the acknowledgement,
\* among those with both fields (null or not), of the chunk that is last in
\* sorted file name order, whatever the order the uploads completed in.
C8_LastInTaskOrderWins ==
    (FinalizeSent /\ Carriers # {}) =>
        LET w == CHOOSE i \in Carriers : \A j \in Carriers : j <= i
        IN  /\ finalize_reqs[1].package = reply[w].package
            /\ finalize_reqs[1].destination = reply[w].destination

\* both uploads are acknowledged with a pair, the second completes first, and
\* the finalize request carries the second one's pair
C8_Witness ==
    /\ FinalizeSent
    /\ Len(tasks) = 2
    /\ completed = <<2, 1>>
    /\ reply[1].package = Pkg(1) /\ CarriesPair(1)
    /\ reply[2].package = Pkg(2) /\ CarriesPair(2)
    /\ finalize_reqs[1].package = Pkg(2)
    /\ finalize_reqs[1].destination = Dst(2)

\* C10: at most one finalize request is sent, and once it is sent there is one
\* upload per enumerated chunk file and each of them has resolved.
C10_FinalizeOnceAfterUploads ==
    /\ Len(finalize_reqs) <= 1
    /\ FinalizeSent =>
        /\ Len(tasks) = Len(chunk_files)
        /\ Len(completed) = Len(tasks)
        /\ \A i \in 1..Len(tasks) : status[i] = "done" /\ reply[i] # NoReply

\* the finalize request is out after two uploads resolved, one of them failed
C10_Witness ==
    /\ pc = "finalize"
    /\ Len(finalize_reqs) = 1
    /\ Len(tasks) = 2
    /\ reply[1].kind = "transport"
    /\ status = <<"done", "done">>

\* the run is past the await of gather
PastGather ==
    \/ pc \in {"ssh_unzip", "finalize", "uploaded", "raised"}
    \/ pc = "exit" /\ (unzip_status # "none" \/ finalize_status # "none")

\* the upload of task i failed: in transport, by its status, or by its body
Failed(i) ==
    \/ reply[i].kind = "transport"
    \/ reply[i].kind = "http" /\ ~reply[i].ok
    \/ reply[i].kind = "http" /\ reply[i].json = "malformed"

\* C11: failed uploads, however many, do not end the run: while uploads are in
\* flight the run has not exited, past the gather every upload has resolved,
\* and unless the unpack is running or has failed the finalize request is sent.
C11_UploadFailuresNotFatal ==
    /\ pc = "gather" => exit_code = -1
    /\ PastGather =>
        /\ \A i \in 1..Len(tasks) : status[i] = "done" /\ reply[i] # NoReply
        /\ unzip_status \in {"none", "ok"} => FinalizeSent

\* both uploads failed, one in transport and one by its status, and the
\* finalize request is out
C11_Witness ==
    /\ pc = "finalize"
    /\ Len(tasks) = 2
    /\ Failed(1) /\ reply[1].kind = "transport"
    /\ Failed(2) /\ reply[2].kind = "http"
    /\ Len(finalize_reqs) = 1

\* C12: a run started through main that ended after a successful finalize, a
\* failed finalize, a fatal unpack, or a failure of the archiver or of the
\* splitter, has ended with the staging directory removed.
C12_StagingRemovedAtEnd ==
    (/\ entry = "main"
     /\ pc \in {"exit", "raised"}
     /\ gen_error # "none" \/ unzip_status # "none" \/ finalize_status # "none") =>
        ~dir_exists

\* the acknowledgement of task i has both fields, neither of them null
CarriesNonNullPair(i) ==
    CarriesPair(i) /\ reply[i].package # None /\ reply[i].destination # None

\* C13: when some acknowledgement carries a package and a destination that are
\* not null, the finalize request carries the pair of the last such
\* acknowledgement in the order of the fold.
C13_KeepsLastNonNullPair ==
    (FinalizeSent /\ \E i \in 1..Len(tasks) : CarriesNonNullPair(i)) =>
        LET w == CHOOSE i \in 1..Len(tasks) :
                    /\ CarriesNonNullPair(i)
                    /\ \A j \in 1..Len(tasks) : CarriesNonNullPair(j) => j <= i
        IN  /\ finalize_reqs[1].package = reply[w].package
            /\ finalize_reqs[1].destination = reply[w].destination

\* C14: once the archiver or the splitter has failed, the run has exited with
\* status 1 and has started no upload, no unpack and no finalize request.
C14_GenerateFailureAborts ==
    gen_error # "none" =>
        /\ pc = "exit"
        /\ exit_code = 1
        /\ tasks = <<>>
        /\ completed = <<>>
        /\ unzip_calls = <<>>
        /\ finalize_reqs = <<>>

\* a run through main whose splitter failed after it had written one chunk
C14_Witness ==
    /\ entry = "main"
    /\ gen_error = "split"
    /\ chunk_index = 1
    /\ exists(dir, chunk_filename(0))
    /\ exit_code = 1

\* C15: once the finalize request has failed in transport or was answered
\* non-2xx, the run has ended with the exception (exit status 1 through main),
\* one finalize request was sent, and the success message was not logged.
C15_FinalizeFailureFatal ==
    finalize_status \in {"transport", "status"} =>
        /\ pc = "raised"
        /\ entry = "main" => exit_code = 1
        /\ Len(finalize_reqs) = 1
        /\ ~initiated_logged

\* a run through main whose finalize request was answered non-2xx
C15_Witness ==
    /\ entry = "main"
    /\ finalize_status = "status"
    /\ Len(tasks) = 1
    /\ CarriesPair(1)
    /\ exit_code = 1

\* C16: while ssh_unzip's command runs, every upload has resolved and no
\* finalize request has been sent.
C16_UnzipAfterUploadsBeforeFinalize ==
    unzip_status = "running" =>
        /\ pc = "ssh_unzip"
        /\ Len(completed) = Len(tasks)
        /\ \A i \in 1..Len(tasks) : status[i] = "done"
        /\ finalize_reqs = <<>>
        /\ finalize_status = "none"

\* the unpack runs after two uploads resolved, the second before the first
C16_Witness ==
    /\ unzip_status = "running"
    /\ Len(unzip_calls) = 1
    /\ completed = <<2, 1>>

\* C17: there is one upload per chunk file of the staging directory and none for
\* another file, each upload resolves at most once, and while an upload is in
\* flight nothing has been folded.
C17_OneUploadPerChunk ==
    /\ UploadsStarted =>
        /\ \A f \in ChunkNames : \E i \in 1..Len(tasks) : tasks[i].filename = f
        /\ \A i \in 1..Len(tasks) : startswith_prefix(tasks[i].filename)
        /\ \A i \in 1..Len(tasks) : exists(dir, tasks[i].filename)
        /\ \A i, j \in 1..Len(tasks) : tasks[i].filename = tasks[j].filename => i = j
        /\ Len(status) = Len(tasks)
        /\ \A j, k \in 1..Len(completed) : completed[j] = completed[k] => j = k
    /\ (\E i \in 1..Len(status) : status[i] = "inflight") =>
        /\ pc = "gather"
        /\ responses = <<>>
        /\ package = None
        /\ destination = None

\* a directory that holds the archive next to two chunk files: two uploads,
\* both resolved
C17_Witness ==
    /\ UploadsStarted
    /\ zip_filename \in names(dir)
    /\ Cardinality(ChunkNames) = 2
    /\ Len(tasks) = 2
    /\ Len(completed) = 2

\* the pair the outcomes of the uploads determine, whatever the order they
\* completed in: that of the last task whose acknowledgement has both fields
PairOfOutcomes ==
    IF Carriers = {} THEN [package |-> None, destination |-> None]
    ELSE LET w == CHOOSE i \in Carriers : \A j \in Carriers : j <= i
         IN  [package |-> reply[w].package, destination |-> reply[w].destination]

\* C18: past the gather, the aggregate and the finalize request carry the pair
\* that the outcomes of the uploads determine, a function of the outcome of
\* each chunk and not of the order of completion.
C18_DescriptorIndependentOfOrder ==
    PastGather =>
        /\ [package |-> package, destination |-> destination] = PairOfOutcomes
        /\ \A k \in 1..Len(finalize_reqs) :
               /\ finalize_reqs[k].package = package
               /\ finalize_reqs[k].destination = destination

\* both uploads are acknowledged with a pair, the second completes first, and
\* the finalize request that carried the second one's pair was accepted
C18_Witness ==
    /\ finalize_status = "ok"
    /\ Len(tasks) = 2
    /\ completed = <<2, 1>>
    /\ CarriesNonNullPair(1)
    /\ CarriesNonNullPair(2)
    /\ finalize_reqs[1].package = Pkg(2)
    /\ finalize_reqs[1].destination = Dst(2)

\* p and d are both null, or the package and destination of one acknowledgement
FromOneAck(p, d) ==
    \/ p = None /\ d = None
    \/ \E i \in 1..Len(tasks) :
          CarriesPair(i) /\ p = reply[i].package /\ d = reply[i].destination

\* C19: in every state the aggregate is both null or the pair of one
\* acknowledgement that has both fields, and so is the pair of every finalize
\* request.
C19_PairUpdatedTogether ==
    /\ FromOneAck(package, destination)
    /\ \A k \in 1..Len(finalize_reqs) :
           FromOneAck(finalize_reqs[k].package, finalize_reqs[k].destination)

\* the first acknowledgement has both fields, the second the package only, and
\* the aggregate is the first one's pair
C19_Witness ==
    /\ PastGather
    /\ Len(tasks) = 2
    /\ CarriesNonNullPair(1)
    /\ Succeeded(2) /\ reply[2].keys = {"package"} /\ reply[2].package = Pkg(2)
    /\ package = Pkg(1)
    /\ destination = Dst(1)

\* C20: in a run started through main, whatever the staging directory held at
\* the start, the files uploaded are the chunk files 0 .. chunk_index - 1 that
\* this run's splitter wrote, one upload each, and the last marker is on the
\* last of them.
C20_OnlyOwnChunksUploaded ==
    (entry = "main" /\ UploadsStarted) =>
        /\ Len(tasks) = chunk_index
        /\ \A i \in 1..Len(tasks) :
               /\ tasks[i].filename = chunk_filename(i - 1)
               /\ tasks[i].last <=> i = chunk_index

\* a run that found the chunk files of an earlier run, wrote two chunks and
\* uploads these two
C20_Witness ==
    /\ entry = "main"
    /\ chunk_filename(StaleIndex) \in stale
    /\ UploadsStarted
    /\ chunk_index = 2
    /\ Len(tasks) = 2
    /\ tasks[2].last

====
